---- MODULE Spec2Model ----
(***************************************************************************)
(* Model of milvus_explorer.py: one invocation of main().  The database    *)
(* client (pymilvus.MilvusClient) is the environment: every call to it     *)
(* either raises or returns one of a small set of values.  The model       *)
(* records every client call in `calls` and every print in `out`.          *)
(***************************************************************************)
EXTENDS Integers, Sequences, FiniteSets, TLC

VARIABLES
    uri_exists,      \* os.path.exists(args.uri) (line 58)
    args,            \* argparse namespace (line 55)
    pc,              \* position of main()
    client,          \* the MilvusClient handle (line 64)
    calls,           \* history: client calls issued, in order
    out,             \* history: lines printed, in order
    table,           \* rows handed to tabulate (line 203)
    search_vector,   \* local search_vector (line 83)
    search_results,  \* local search_results (line 125)
    collections,     \* local collections (line 178)
    collection_data, \* local collection_data (line 184)
    description,     \* local description (line 215)
    field_names,     \* local field_names (lines 226/229)
    output_fields,   \* local output_fields (lines 227/231-236)
    results,         \* local results (line 243)
    i,               \* loop index of the for loops (lines 140, 185, 258)
    exit_status      \* process exit status seen by a calling script

vars == <<uri_exists, args, pc, client, calls, out, table, search_vector,
          search_results, collections,
          collection_data, description, field_names, output_fields, results,
          i, exit_status>>

----------------------------------------------------------------------------
(* Bounds of the model *)
MaxLimit == 2
MaxOffset == 1
MaxTopK == 2
MaxPreview == 2
MaxCollections == 2
MaxTextLen == 102

(* Program constants *)
DefaultLimit == 10
DefaultOffset == 0
DefaultPreview == 5
DefaultTopK == 5
TruncLimit == 100
TruncKeep == 97

Min(a, b) == IF a < b THEN a ELSE b

----------------------------------------------------------------------------
(* Python values.  A value is a record [t, n, items]: t is the type tag,   *)
(* n the number of an int, items the elements of a list.                   *)
PyNum(k) == [t |-> "int", n |-> k, items |-> <<>>]
PyList(s) == [t |-> "list", n |-> 0, items |-> s]
PyDict == [t |-> "dict", n |-> 0, items |-> <<>>]
PyNone == [t |-> "None", n |-> 0, items |-> <<>>]
PyStr == [t |-> "str", n |-> 0, items |-> <<>>]

(* Optional option values: None or a value *)
None(dflt) == [some |-> FALSE, v |-> dflt]
Some(x) == [some |-> TRUE, v |-> x]

Digits == <<"0", "1", "2", "3", "4", "5", "6", "7", "8", "9">>
IsDigit(c) == \E d \in 1..10 : Digits[d] = c
DigitVal(c) == (CHOOSE d \in 1..10 : Digits[d] = c) - 1

(* json.loads on a string over the characters [ ] { } , space and digits *)
RECURSIVE SkipWs(_, _)
SkipWs(s, k) == IF k <= Len(s) /\ s[k] = " " THEN SkipWs(s, k + 1) ELSE k

RECURSIVE ScanInt(_, _, _)
ScanInt(s, k, acc) ==
    IF k <= Len(s) /\ IsDigit(s[k])
    THEN ScanInt(s, k + 1, acc * 10 + DigitVal(s[k]))
    ELSE [ok |-> TRUE, val |-> PyNum(acc), next |-> k]

ParseFail == [ok |-> FALSE, val |-> PyNone, next |-> 0]

RECURSIVE ParseValue(_, _)
RECURSIVE ParseElems(_, _, _)
ParseValue(s, k) ==
    IF k > Len(s) THEN ParseFail
    ELSE IF s[k] = "["
    THEN LET j == SkipWs(s, k + 1)
         IN  IF j <= Len(s) /\ s[j] = "]"
             THEN [ok |-> TRUE, val |-> PyList(<<>>), next |-> j + 1]
             ELSE ParseElems(s, j, <<>>)
    ELSE IF s[k] = "{"
    THEN LET j == SkipWs(s, k + 1)
         IN  IF j <= Len(s) /\ s[j] = "}"
             THEN [ok |-> TRUE, val |-> PyDict, next |-> j + 1]
             ELSE ParseFail
    ELSE IF s[k] = "0"
    THEN [ok |-> TRUE, val |-> PyNum(0), next |-> k + 1]
    ELSE IF IsDigit(s[k])
    THEN ScanInt(s, k, 0)
    ELSE ParseFail

ParseElems(s, k, acc) ==
    LET r == ParseValue(s, k)
    IN  IF ~r.ok THEN ParseFail
        ELSE LET j == SkipWs(s, r.next)
             IN  IF j > Len(s) THEN ParseFail
                 ELSE IF s[j] = ","
                 THEN ParseElems(s, SkipWs(s, j + 1), Append(acc, r.val))
                 ELSE IF s[j] = "]"
                 THEN [ok |-> TRUE, val |-> PyList(Append(acc, r.val)),
                       next |-> j + 1]
                 ELSE ParseFail

JsonLoads(s) ==
    LET r == ParseValue(s, SkipWs(s, 1))
    IN  IF ~r.ok THEN ParseFail
        ELSE IF SkipWs(s, r.next) <= Len(s) THEN ParseFail
        ELSE r

----------------------------------------------------------------------------
(* Python strings are sequences of characters.  TextOf(n) is a text of n   *)
(* characters whose characters depend on their position.                   *)
Chr(k) == IF k % 3 = 0 THEN "a" ELSE IF k % 3 = 1 THEN "b" ELSE "."
TextOf(n) == [k \in 1..n |-> Chr(k)]

(* Records and hits returned by the client: has is the set of keys. *)
Embedding == PyList(<<PyNum(3), PyNum(4), PyNum(12)>>)
Embedding2 == PyList(<<PyNum(1)>>)

Record(has, idv, text, text_ok, meta_kind, emb) ==
    [has |-> has, id |-> idv, text |-> text, text_ok |-> text_ok,
     reference |-> "ref", meta_kind |-> meta_kind,
     metadata |-> <<<<"k1", "v1">>, <<"k2", "v2">>>>,
     embedding |-> emb, title |-> "t"]

Items ==
    {Record({"id", "text", "embedding"}, 1, TextOf(TruncLimit), TRUE, "dict", PyStr),
     Record({"id", "text"}, 2, TextOf(TruncLimit + 1), TRUE, "dict", Embedding),
     Record({"id", "text", "reference", "metadata", "embedding", "title"},
            3, TextOf(MaxTextLen), TRUE, "dict", Embedding),
     Record({"id", "text", "metadata"}, 4, TextOf(3), TRUE, "bad", Embedding),
     Record({"text", "metadata"}, 5, <<>>, FALSE, "empty", Embedding)}

Hits ==
    {[r EXCEPT !.has = @ \cup {"score"}] : r \in Items}
    \cup {Record({"id", "text"}, 6, TextOf(3), TRUE, "dict", Embedding)}

QueryIdResults ==
    {<<>>,
     <<Record({"id", "embedding"}, 0, <<>>, TRUE, "empty", Embedding)>>,
     <<Record({"id", "embedding"}, 0, <<>>, TRUE, "empty", Embedding2)>>,
     <<Record({"id"}, 0, <<>>, TRUE, "empty", PyNone)>>}

(* describe_collection results: has_description is "description" in dict *)
Descriptions ==
    {[has_description |-> TRUE, description |-> "about",
      fields |-> <<"id", "text", "reference", "metadata", "embedding", "title">>],
     [has_description |-> FALSE, description |-> "",
      fields |-> <<"id", "embedding", "text">>],
     [has_description |-> TRUE, description |-> "about",
      fields |-> <<"text", "title">>],
     [has_description |-> FALSE, description |-> "", fields |-> <<>>]}
(* In the listing only the description of a collection is read: one       *)
(* result with a description and one without                               *)
ListedDescriptions ==
    {CHOOSE d \in Descriptions : d.has_description,
     CHOOSE d \in Descriptions : ~d.has_description}
NoDescription == [has_description |-> FALSE, description |-> "", fields |-> <<>>]

(* get_collection_stats results: a falsy value, a dict without row_count,  *)
(* a dict with row_count                                                   *)
StatsResults ==
    {[truthy |-> FALSE, has_row_count |-> FALSE, row_count |-> 0],
     [truthy |-> TRUE, has_row_count |-> FALSE, row_count |-> 0],
     [truthy |-> TRUE, has_row_count |-> TRUE, row_count |-> 7]}

CollectionNames == {"a", "b"}

(* All sequences over S of length at most n *)
RECURSIVE SeqsUpTo(_, _)
SeqsUpTo(S, n) ==
    IF n = 0 THEN {<<>>}
    ELSE LET shorter == SeqsUpTo(S, n - 1)
         IN  shorter \cup {Append(s, x) : s \in shorter, x \in S}

----------------------------------------------------------------------------
(* Command lines (lines 18-55).  Search-mode command lines vary the search *)
(* options, browsing command lines vary the paging and display options.    *)
SearchVectors ==
    {<<>>,
     <<"[", "]">>,
     <<"[", "1", ",", " ", "2", "]">>,
     <<"[", "[", "3", "]", ",", "1", "0", "]">>,
     <<"7">>,
     <<"{", "}">>,
     <<"[", "1", ",">>}

OptCollections == {None(""), Some(""), Some("docs")}
OptSearchIds == {None(0), Some(0)}
OptSearchTexts == {None(""), Some("q")}
OptSearchVectors == {None(<<>>)} \cup {Some(v) : v \in SearchVectors}

SearchInvocations ==
    [collection : OptCollections, limit : {DefaultLimit},
     offset : {DefaultOffset}, show_vectors : {FALSE},
     vector_preview : {DefaultPreview}, search : {TRUE},
     search_text : OptSearchTexts, search_vector : OptSearchVectors,
     search_id : OptSearchIds, top_k : 1..MaxTopK]

BrowseInvocations ==
    [collection : OptCollections, limit : 1..MaxLimit,
     offset : {0, MaxOffset}, show_vectors : BOOLEAN,
     vector_preview : {1, MaxPreview}, search : {FALSE},
     search_text : {None("")}, search_vector : {None(<<>>)},
     search_id : {None(0)}, top_k : {DefaultTopK}]

(* Python truthiness of an optional string option *)
Truthy(opt) == opt.some /\ Len(opt.v) > 0
TruthyStr_NotNone(opt) == opt.some
TruthyStr(opt) == opt.some /\ opt.v # ""

Init ==
    /\ uri_exists \in BOOLEAN
    /\ args \in SearchInvocations \cup BrowseInvocations
    /\ pc = "start"
    /\ client = [open |-> FALSE, has_stats |-> FALSE]
    /\ calls = <<>>
    /\ out = <<>>
    /\ table = <<>>
    /\ search_vector = PyNone
    /\ search_results = <<>>
    /\ collections = <<>>
    /\ collection_data = <<>>
    /\ description = NoDescription
    /\ field_names = <<>>
    /\ output_fields = <<>>
    /\ results = <<>>
    /\ i = 0
    /\ exit_status = 0

----------------------------------------------------------------------------
(* Printed lines and recorded client calls *)
Msg(tag, n, s, txt) == [tag |-> tag, n |-> n, s |-> s, txt |-> txt]
Line(tag) == Msg(tag, 0, "", <<>>)

Call(op, ok) ==
    [op |-> op, ok |-> ok, coll |-> "", filter |-> "", filter_id |-> 0,
     output_fields |-> <<>>, limit |-> 0, offset |-> 0, data |-> <<>>,
     anns_field |-> "", metric_type |-> "", ret |-> <<>>]

(* The try/except structure of main(): the handler that catches an         *)
(* exception raised at each site.                                          *)
TryTable(site) ==
    CASE site = "open" -> "except_connect"                       \* 63-68
      [] site = "has_collection_search" -> "except_search_op"    \* 76, 171
      [] site = "query_id" -> "except_query_id"                  \* 87, 100
      [] site = "json_loads" -> "except_json"                    \* 105, 111
      [] site \in {"search", "hit"} -> "except_search"           \* 124, 164
      [] site = "list_collections" -> "except_list"              \* 177, 204
      [] site = "describe_listing" -> "except_row"               \* 186, 200
      [] site = "get_collection_stats" -> "except_stats"         \* 189, 196
      [] site \in {"has_collection_inspect", "describe_inspect"}
            -> "except_info"                                     \* 209, 303
      [] site \in {"query_inspect", "record"} -> "except_query"  \* 220, 298
      [] OTHER -> "none"

HandlerOf_NoStatsTry(site) ==
    IF site = "get_collection_stats" THEN "except_row" ELSE TryTable(site)
HandlerOf_NoConnectTry(site) ==
    IF site = "open" THEN "none" ELSE TryTable(site)
HandlerOf(site) == TryTable(site)

(* What each handler prints *)
HandlerOutput(h) ==
    CASE h = "except_connect" -> <<Line("connect_failed")>>              \* 67
      [] h = "except_search_op" -> <<Line("search_op_failed")>>          \* 172
      [] h = "except_query_id" -> <<Line("query_id_failed")>>            \* 101
      [] h = "except_json" -> <<Line("vector_invalid_json")>>            \* 112
      [] h = "except_search" -> <<Line("search_failed"), Line("traceback")>>
      [] h = "except_list" -> <<Line("list_failed")>>                    \* 205
      [] h = "except_info" -> <<Line("info_failed")>>                    \* 304
      [] h = "except_query" ->
            <<Line("query_failed"), Line("error_detail"), Line("traceback")>>
      [] OTHER -> <<>>

(* An exception raised at `site` after `o` was printed: the handler prints *)
(* and main() returns; with no handler the exception leaves main().        *)
Raise_NoReturn(site, o) ==
    LET h == HandlerOf(site)
    IN  /\ out' = o \o HandlerOutput(h)
        /\ pc' = IF h = "none" THEN "raised"
                 ELSE IF h = "except_query_id" THEN "search" ELSE "done"
        /\ exit_status' = IF h = "none" THEN 1 ELSE exit_status
Raise(site, o) ==
    LET h == HandlerOf(site)
    IN  /\ out' = o \o HandlerOutput(h)
        /\ pc' = IF h = "none" THEN "raised" ELSE "done"
        /\ exit_status' = IF h = "none" THEN 1 ELSE exit_status

Locals == <<search_vector, search_results, collections, collection_data, description,
            field_names, output_fields, results, i, table>>

----------------------------------------------------------------------------
CheckUri_NoReturn ==
    /\ pc = "start"
    /\ out' = IF ~uri_exists THEN Append(out, Line("file_missing")) ELSE out
    /\ pc' = "connect"
    /\ UNCHANGED <<uri_exists, args, client, calls, exit_status, Locals>>

(* lines 57-60 *)
CheckUri ==
    /\ pc = "start"
    /\ IF ~uri_exists
       THEN /\ out' = Append(out, Line("file_missing"))
            /\ pc' = "done"
       ELSE /\ out' = out
            /\ pc' = "connect"
    /\ UNCHANGED <<uri_exists, args, client, calls, exit_status, Locals>>

(* lines 62-68 *)
Connect ==
    /\ pc = "connect"
    /\ \/ \E hs \in BOOLEAN :
             /\ client' = [open |-> TRUE, has_stats |-> hs]
             /\ calls' = Append(calls, Call("open", TRUE))
             /\ out' = Append(out, Line("connected"))
             /\ pc' = "dispatch"
             /\ UNCHANGED exit_status
       \/ /\ calls' = Append(calls, Call("open", FALSE))
          /\ Raise("open", out)
          /\ UNCHANGED client
    /\ UNCHANGED <<uri_exists, args, Locals>>

(* lines 71-74 *)
SearchNoCollection ==
    /\ pc = "dispatch"
    /\ args.search
    /\ ~TruthyStr(args.collection)
    /\ out' = Append(out, Line("search_needs_collection"))
    /\ pc' = "done"
    /\ UNCHANGED <<uri_exists, args, client, calls, exit_status, Locals>>

(* lines 76-80 *)
SearchHasCollection ==
    /\ pc = "dispatch"
    /\ args.search
    /\ TruthyStr(args.collection)
    /\ \/ \E exists \in BOOLEAN :
             /\ calls' = Append(calls, [Call("has_collection", TRUE) EXCEPT
                                          !.coll = args.collection.v,
                                          !.ret = <<exists>>])
             /\ IF exists
                THEN /\ pc' = "resolve"
                     /\ out' = out
                ELSE /\ out' = Append(out, Line("collection_missing"))
                     /\ pc' = "done"
             /\ UNCHANGED exit_status
       \/ /\ calls' = Append(calls, [Call("has_collection", FALSE) EXCEPT
                                       !.coll = args.collection.v])
          /\ Raise("has_collection_search", out)
    /\ UNCHANGED <<uri_exists, args, client, Locals>>

(* line 86: args.search_id is not None *)
HasSearchId_Truthy(a) == a.search_id.some /\ a.search_id.v # 0
HasSearchId(a) == a.search_id.some

(* lines 85-102: the query vector is the stored vector of record search_id *)
ResolveById ==
    /\ pc = "resolve"
    /\ HasSearchId(args)
    /\ LET q == [Call("query", TRUE) EXCEPT
                   !.coll = args.collection.v, !.filter = "id ==",
                   !.filter_id = args.search_id.v,
                   !.output_fields = <<"embedding">>, !.limit = 1]
       IN  \/ \E result \in QueryIdResults :
                /\ calls' = Append(calls, [q EXCEPT !.ret = result])
                /\ IF Len(result) > 0 /\ "embedding" \in result[1].has
                   THEN /\ search_vector' = result[1].embedding
                        /\ out' = Append(out, Msg("using_id", args.search_id.v, "", <<>>))
                        /\ pc' = "search"
                   ELSE /\ out' = Append(out, Line("id_not_found"))
                        /\ pc' = "done"
                        /\ UNCHANGED search_vector
                /\ UNCHANGED exit_status
           \/ /\ calls' = Append(calls, [q EXCEPT !.ok = FALSE])
              /\ Raise("query_id", out)
              /\ UNCHANGED search_vector
    /\ UNCHANGED <<uri_exists, args, client, search_results, collections,
                   collection_data, description, field_names, output_fields,
                   results, i, table>>

(* lines 104-113: the query vector is the parsed --search_vector *)
ResolveByVector ==
    /\ pc = "resolve"
    /\ ~HasSearchId(args)
    /\ Truthy(args.search_vector)
    /\ LET r == JsonLoads(args.search_vector.v)
       IN  IF ~r.ok
           THEN /\ Raise("json_loads", out)
                /\ UNCHANGED search_vector
           ELSE IF r.val.t # "list"
           THEN /\ out' = Append(out, Line("vector_not_array"))
                /\ pc' = "done"
                /\ UNCHANGED <<search_vector, exit_status>>
           ELSE /\ search_vector' = r.val
                /\ out' = Append(out, Msg("using_vector", Len(r.val.items), "", <<>>))
                /\ pc' = "search"
                /\ UNCHANGED exit_status
    /\ UNCHANGED <<uri_exists, args, client, calls, search_results, collections,
                   collection_data, description, field_names, output_fields,
                   results, i, table>>

(* lines 115-118 *)
ResolveByText ==
    /\ pc = "resolve"
    /\ ~HasSearchId(args)
    /\ ~Truthy(args.search_vector)
    /\ TruthyStr(args.search_text)
    /\ out' = out \o <<Line("text_not_implemented"), Line("text_hint")>>
    /\ pc' = "done"
    /\ UNCHANGED <<uri_exists, args, client, calls, exit_status, Locals>>

(* lines 119-121 *)
ResolveNothing ==
    /\ pc = "resolve"
    /\ ~HasSearchId(args)
    /\ ~Truthy(args.search_vector)
    /\ ~TruthyStr(args.search_text)
    /\ out' = Append(out, Line("search_needs_vector"))
    /\ pc' = "done"
    /\ UNCHANGED <<uri_exists, args, client, calls, exit_status, Locals>>

HitText_Keep100(text) ==
    IF Len(text) > TruncLimit
    THEN SubSeq(text, 1, TruncLimit) \o <<".", ".", ".">>
    ELSE text

(* lines 146-147 *)
HitText(text) ==
    IF Len(text) > TruncLimit
    THEN SubSeq(text, 1, TruncKeep) \o <<".", ".", ".">>
    ELSE text

(* Printing steps accumulate [lines, raised]; once an exception is raised  *)
(* the remaining steps of the loop body are skipped.                       *)
Printed(acc, ls) == IF acc.raised THEN acc ELSE [acc EXCEPT !.lines = @ \o ls]
Failed(acc, ls) ==
    IF acc.raised THEN acc ELSE [lines |-> acc.lines \o ls, raised |-> TRUE]

MetadataLines(item) ==
    [k \in 1..Len(item.metadata) |->
        Msg("metadata_item", 0, item.metadata[k][1], <<>>)]

(* lines 141-162: one iteration of the loop over search_results[0] *)
RenderHit(hit, n) ==
    LET a0 == [lines |-> <<>>, raised |-> FALSE]
        a1 == IF "score" \in hit.has
              THEN Printed(a0, <<Msg("hit_header", n, "", <<>>)>>)
              ELSE Failed(a0, <<>>)
        a2 == IF "text" \in hit.has
              THEN IF hit.text_ok
                   THEN Printed(a1, <<Msg("text", 0, "", HitText(hit.text))>>)
                   ELSE Failed(a1, <<>>)
              ELSE a1
        a3 == IF "reference" \in hit.has
              THEN Printed(a2, <<Msg("reference", 0, hit.reference, <<>>)>>)
              ELSE a2
        a4 == IF "metadata" \in hit.has /\ hit.meta_kind # "empty"
              THEN IF hit.meta_kind = "dict"
                   THEN Printed(a3, <<Line("metadata")>> \o MetadataLines(hit))
                   ELSE Failed(a3, <<Line("metadata")>>)
              ELSE a3
        a5 == IF "id" \in hit.has
              THEN Printed(a4, <<Msg("id", hit.id, "", <<>>)>>)
              ELSE a4
    IN  a5

SearchCall_PageLimit(vector) ==
    [Call("search", TRUE) EXCEPT
       !.coll = args.collection.v, !.data = <<vector>>,
       !.anns_field = "embedding", !.metric_type = "L2",
       !.limit = args.limit,
       !.output_fields = <<"text", "reference", "metadata">>]

(* lines 125-132: the arguments of client.search *)
SearchCall(vector) ==
    [Call("search", TRUE) EXCEPT
       !.coll = args.collection.v, !.data = <<vector>>,
       !.anns_field = "embedding", !.metric_type = "L2",
       !.limit = args.top_k,
       !.output_fields = <<"text", "reference", "metadata">>]

(* line 134: not search_results or not search_results[0] *)
NoHits_OuterOnly(sr) == Len(sr) = 0
NoHits(sr) == Len(sr) = 0 \/ Len(sr[1]) = 0

(* lines 123-138: the search call and the report of its size *)
DoSearch ==
    /\ pc = "search"
    /\ LET c == SearchCall(search_vector)
       IN  \/ \E sr \in {<<>>} \cup {<<h>> : h \in SeqsUpTo(Hits, args.top_k)} :
                /\ calls' = Append(calls, [c EXCEPT !.ret = sr])
                /\ search_results' = sr
                /\ IF NoHits(sr)
                   THEN /\ out' = Append(out, Line("no_similar"))
                        /\ pc' = "done"
                        /\ i' = i
                   ELSE /\ out' = Append(out, Msg("found", Len(sr[1]), "", <<>>))
                        /\ pc' = "hits"
                        /\ i' = 0
                /\ UNCHANGED exit_status
           \/ /\ calls' = Append(calls, [c EXCEPT !.ok = FALSE])
              /\ Raise("search", out)
              /\ UNCHANGED <<search_results, i>>
    /\ UNCHANGED <<uri_exists, args, client, search_vector, collections,
                   collection_data, description, field_names, output_fields,
                   results, table>>

(* lines 140-169: the loop over the hits, one hit per step *)
ShowHit ==
    /\ pc = "hits"
    /\ i < Len(search_results[1])
    /\ LET r == RenderHit(search_results[1][i + 1], i + 1)
       IN  IF r.raised
           THEN /\ Raise("hit", out \o r.lines)
                /\ i' = i
           ELSE /\ out' = out \o r.lines
                /\ i' = i + 1
                /\ pc' = IF i + 1 = Len(search_results[1]) THEN "done" ELSE "hits"
                /\ UNCHANGED exit_status
    /\ UNCHANGED <<uri_exists, args, client, calls, search_vector, search_results,
                   collections, collection_data, description, field_names,
                   output_fields, results, table>>

----------------------------------------------------------------------------
(* lines 176-184 *)
ListCollections ==
    /\ pc = "dispatch"
    /\ ~args.search
    /\ ~TruthyStr(args.collection)
    /\ \/ \E cs \in SeqsUpTo(CollectionNames, MaxCollections) :
             /\ calls' = Append(calls, [Call("list_collections", TRUE) EXCEPT
                                          !.ret = cs])
             /\ collections' = cs
             /\ collection_data' = <<>>
             /\ IF Len(cs) = 0
                THEN /\ out' = Append(out, Line("no_collections"))
                     /\ pc' = "done"
                     /\ i' = i
                ELSE /\ out' = Append(out, Line("list_header"))
                     /\ pc' = "listing"
                     /\ i' = 0
             /\ UNCHANGED exit_status
       \/ /\ calls' = Append(calls, Call("list_collections", FALSE))
          /\ Raise("list_collections", out)
          /\ UNCHANGED <<collections, collection_data, i>>
    /\ UNCHANGED <<uri_exists, args, client, search_vector, search_results,
                   description, field_names, output_fields, results, table>>

(* A row of collection_data; the count is "unknown" unless known *)
Row(name, descr, known, count) ==
    [name |-> name, description |-> descr, known |-> known, count |-> count]

(* line 199: description.get("description", "") *)
DescriptionOr(d, dflt) == IF d.has_description THEN d.description ELSE dflt

(* lines 190-195: the count read from the result of get_collection_stats *)
CountOf(name, d, stats) ==
    IF stats.truthy /\ stats.has_row_count
    THEN Row(name, DescriptionOr(d, ""), TRUE, stats.row_count)
    ELSE Row(name, DescriptionOr(d, ""), FALSE, 0)

(* lines 185-201: one iteration of the loop over collections *)
ListRow ==
    /\ pc = "listing"
    /\ i < Len(collections)
    /\ LET name == collections[i + 1]
           dc == [Call("describe_collection", TRUE) EXCEPT !.coll = name]
           sc == [Call("get_collection_stats", TRUE) EXCEPT !.coll = name]
           Continue(cs, row) ==
               /\ calls' = calls \o cs
               /\ collection_data' = Append(collection_data, row)
               /\ i' = i + 1
               /\ UNCHANGED <<out, pc, exit_status>>
           Abort(cs, site) ==
               /\ calls' = calls \o cs
               /\ Raise(site, out)
               /\ UNCHANGED <<collection_data, i>>
       IN  \/ \* describe_collection raises (line 200)
              LET cs == <<[dc EXCEPT !.ok = FALSE]>>
              IN  IF HandlerOf("describe_listing") = "except_row"
                  THEN Continue(cs, Row(name, "describe_failed", FALSE, 0))
                  ELSE Abort(cs, "describe_listing")
           \/ \* the client has no get_collection_stats (line 192)
              /\ ~client.has_stats
              /\ \E d \in ListedDescriptions :
                    Continue(<<[dc EXCEPT !.ret = <<d>>]>>,
                             Row(name, DescriptionOr(d, ""), FALSE, 0))
           \/ \* get_collection_stats returns (lines 193-195)
              /\ client.has_stats
              /\ \E d \in ListedDescriptions, st \in StatsResults :
                    Continue(<<[dc EXCEPT !.ret = <<d>>], [sc EXCEPT !.ret = <<st>>]>>,
                             CountOf(name, d, st))
           \/ \* get_collection_stats raises (lines 196-197)
              /\ client.has_stats
              /\ \E d \in ListedDescriptions :
                    LET cs == <<[dc EXCEPT !.ret = <<d>>], [sc EXCEPT !.ok = FALSE]>>
                        h == HandlerOf("get_collection_stats")
                    IN  IF h = "except_stats"
                        THEN Continue(cs, Row(name, DescriptionOr(d, ""), FALSE, 0))
                        ELSE IF h = "except_row"
                        THEN Continue(cs, Row(name, "describe_failed", FALSE, 0))
                        ELSE Abort(cs, "get_collection_stats")
    /\ UNCHANGED <<uri_exists, args, client, search_vector, search_results,
                   collections, description, field_names, output_fields,
                   results, table>>

(* line 203 *)
PrintTable ==
    /\ pc = "listing"
    /\ i = Len(collections)
    /\ table' = collection_data
    /\ out' = Append(out, Line("table"))
    /\ pc' = "done"
    /\ UNCHANGED <<uri_exists, args, client, calls, search_vector, search_results,
                   collections, collection_data, description, field_names,
                   output_fields, results, i, exit_status>>

----------------------------------------------------------------------------
(* lines 209-212 *)
InspectHasCollection ==
    /\ pc = "dispatch"
    /\ ~args.search
    /\ TruthyStr(args.collection)
    /\ \/ \E exists \in BOOLEAN :
             /\ calls' = Append(calls, [Call("has_collection", TRUE) EXCEPT
                                          !.coll = args.collection.v,
                                          !.ret = <<exists>>])
             /\ IF exists
                THEN /\ pc' = "describe"
                     /\ out' = out
                ELSE /\ out' = Append(out, Line("collection_missing"))
                     /\ pc' = "done"
             /\ UNCHANGED exit_status
       \/ /\ calls' = Append(calls, [Call("has_collection", FALSE) EXCEPT
                                       !.coll = args.collection.v])
          /\ Raise("has_collection_inspect", out)
    /\ UNCHANGED <<uri_exists, args, client, Locals>>

(* lines 214-217 *)
InspectDescribe ==
    /\ pc = "describe"
    /\ LET dc == [Call("describe_collection", TRUE) EXCEPT
                    !.coll = args.collection.v]
       IN  \/ \E d \in Descriptions :
                /\ calls' = Append(calls, [dc EXCEPT !.ret = <<d>>])
                /\ description' = d
                /\ out' = out \o <<Line("collection_info"),
                                   Msg("description", 0, DescriptionOr(d, "none"), <<>>)>>
                /\ pc' = "query"
                /\ UNCHANGED exit_status
           \/ /\ calls' = Append(calls, [dc EXCEPT !.ok = FALSE])
              /\ Raise("describe_inspect", out)
              /\ UNCHANGED description
    /\ UNCHANGED <<uri_exists, args, client, search_vector, search_results,
                   collections, collection_data, field_names, output_fields,
                   results, i, table>>

Range(s) == {s[k] : k \in 1..Len(s)}

(* line 226 *)
ShownFieldNames(fields) ==
    LET Keep(f) == f # "id" IN SelectSeq(fields, Keep)

(* line 229 *)
CompactFieldNames(fields) ==
    LET Keep(f) == f \notin {"id", "embedding"} IN SelectSeq(fields, Keep)

(* lines 231-232 *)
CompactOutputFields(names) ==
    LET Keep(f) == f \in Range(names)
    IN  SelectSeq(<<"text", "reference", "metadata">>, Keep)

WithId_Never(fields) == fields

(* lines 235-236 *)
WithId(fields) == IF "id" \notin Range(fields) THEN Append(fields, "id") ELSE fields

(* lines 225-236: <<field_names, output_fields>>; with show_vectors both   *)
(* names are bound to one list, so the appended id shows in both           *)
ComputeFields(fields, show_vectors) ==
    IF show_vectors
    THEN <<WithId(ShownFieldNames(fields)), WithId(ShownFieldNames(fields))>>
    ELSE <<CompactFieldNames(fields),
           WithId(CompactOutputFields(CompactFieldNames(fields)))>>

(* lines 268-269 *)
RecordText(text) ==
    IF Len(text) > TruncLimit
    THEN SubSeq(text, 1, TruncKeep) \o <<".", ".", ".">>
    ELSE text

(* lines 283-292 *)
EmbeddingLines(item, preview) ==
    IF item.embedding.t = "list"
    THEN <<Msg("vector_dim", Len(item.embedding.items), "", <<>>),
           Msg("vector_preview", preview, "",
               SubSeq(item.embedding.items, 1,
                      Min(preview, Len(item.embedding.items)))),
           Line("vector_norm")>>
    ELSE <<Line("vector_raw")>>

(* lines 295-297 *)
OtherFieldLines(item, names) ==
    LET Keep(f) == /\ f \notin {"text", "reference", "metadata", "embedding", "id"}
                   /\ f \in item.has
        shown == SelectSeq(names, Keep)
    IN  [k \in 1..Len(shown) |-> Msg("field", 0, shown[k], <<>>)]

(* lines 259-297: one iteration of the loop over results *)
RenderRecord(item, n, names, show_vectors, preview) ==
    LET a0 == [lines |-> <<Msg("record_header", n, "", <<>>)>>, raised |-> FALSE]
        a1 == IF "id" \in item.has
              THEN Printed(a0, <<Msg("id", item.id, "", <<>>)>>)
              ELSE a0
        a2 == IF "text" \in item.has
              THEN IF item.text_ok
                   THEN Printed(a1, <<Msg("text", 0, "", RecordText(item.text))>>)
                   ELSE Failed(a1, <<>>)
              ELSE a1
        a3 == IF "reference" \in item.has
              THEN Printed(a2, <<Msg("reference", 0, item.reference, <<>>)>>)
              ELSE a2
        a4 == IF "metadata" \in item.has /\ item.meta_kind # "empty"
              THEN IF item.meta_kind = "dict"
                   THEN Printed(a3, <<Line("metadata")>> \o MetadataLines(item))
                   ELSE Failed(a3, <<Line("metadata")>>)
              ELSE a3
        a5 == IF show_vectors /\ "embedding" \in item.has
              THEN Printed(a4, EmbeddingLines(item, preview))
              ELSE a4
        a6 == Printed(a5, OtherFieldLines(item, names))
    IN  a6

(* lines 219-255: the output fields, the query call, the report of its size *)
InspectQuery ==
    /\ pc = "query"
    /\ LET fs == ComputeFields(description.fields, args.show_vectors)
           q == [Call("query", TRUE) EXCEPT
                   !.coll = args.collection.v, !.filter = "",
                   !.output_fields = fs[2], !.limit = args.limit,
                   !.offset = args.offset]
       IN  /\ field_names' = fs[1]
           /\ output_fields' = fs[2]
           /\ IF Len(fs[2]) = 0
              THEN /\ out' = Append(out, Line("no_fields"))
                   /\ pc' = "done"
                   /\ UNCHANGED <<calls, results, i, exit_status>>
              ELSE \/ \E rs \in SeqsUpTo(Items, args.limit) :
                        /\ calls' = Append(calls, [q EXCEPT !.ret = rs])
                        /\ results' = rs
                        /\ IF Len(rs) = 0
                           THEN /\ out' = Append(out, Line("no_data"))
                                /\ pc' = "done"
                                /\ i' = i
                           ELSE /\ out' = Append(out,
                                       Msg("data_range", args.offset + 1, "",
                                           <<args.offset + Len(rs)>>))
                                /\ pc' = "records"
                                /\ i' = 0
                        /\ UNCHANGED exit_status
                   \/ /\ calls' = Append(calls, [q EXCEPT !.ok = FALSE])
                      /\ Raise("query_inspect", out)
                      /\ UNCHANGED <<results, i>>
    /\ UNCHANGED <<uri_exists, args, client, search_vector, search_results,
                   collections, collection_data, description, table>>

(* lines 258-302: the loop over the records, one record per step *)
ShowRecord ==
    /\ pc = "records"
    /\ i < Len(results)
    /\ LET r == RenderRecord(results[i + 1], args.offset + i + 1, field_names,
                             args.show_vectors, args.vector_preview)
       IN  IF r.raised
           THEN /\ Raise("record", out \o r.lines)
                /\ i' = i
           ELSE /\ out' = out \o r.lines
                /\ i' = i + 1
                /\ pc' = IF i + 1 = Len(results) THEN "done" ELSE "records"
                /\ UNCHANGED exit_status
    /\ UNCHANGED <<uri_exists, args, client, calls, search_vector, search_results,
                   collections, collection_data, description, field_names,
                   output_fields, results, table>>

----------------------------------------------------------------------------
Next ==
    \/ CheckUri
    \/ Connect
    \/ SearchNoCollection
    \/ SearchHasCollection
    \/ ResolveById
    \/ ResolveByVector
    \/ ResolveByText
    \/ ResolveNothing
    \/ DoSearch
    \/ ShowHit
    \/ ListCollections
    \/ ListRow
    \/ PrintTable
    \/ InspectHasCollection
    \/ InspectDescribe
    \/ InspectQuery
    \/ ShowRecord

Spec == Init /\ [][Next]_vars

----------------------------------------------------------------------------
(* Vocabulary of the properties *)
NumLines(tags) == Cardinality({k \in DOMAIN out : out[k].tag \in tags})
CallsOf(op) == {k \in DOMAIN calls : calls[k].op = op}
LacksCollection == ~args.collection.some \/ args.collection.v = ""
LacksVector ==
    /\ ~args.search_id.some
    /\ ~args.search_vector.some \/ Len(args.search_vector.v) = 0
    /\ ~args.search_text.some \/ args.search_text.v = ""
(* has_collection was the second call and returned True *)
CollectionExists ==
    /\ Len(calls) >= 2
    /\ calls[2].op = "has_collection"
    /\ calls[2].ok
    /\ calls[2].ret = <<TRUE>>
FailureTags ==
    {"connect_failed", "search_op_failed", "query_id_failed", "search_failed",
     "list_failed", "info_failed", "query_failed"}

(* C1, as stated: a search invocation that lacks a collection name, or     *)
(* lacks all of search_id, search_vector and search_text, never contacts   *)
(* the client and ends with the missing-argument error.                    *)
C1_NoClientCallBeforeArgumentError ==
    (args.search /\ (LacksCollection \/ LacksVector)) =>
        /\ Len(calls) = 0
        /\ (pc = "done" /\ uri_exists) =>
              NumLines({"search_needs_collection", "search_needs_vector"}) = 1

(* C1, amended: once the connection is open, a search invocation without a *)
(* collection name reports the missing collection having called only open; *)
(* one with an existing collection but no id, vector or text reports the   *)
(* missing vector having called only open and has_collection; neither ever *)
(* issues a query or search call.                                          *)
C1_ArgumentErrorBeforeQueryAndSearch ==
    /\ (args.search /\ (LacksCollection \/ LacksVector)) =>
          CallsOf("query") \cup CallsOf("search") = {}
    /\ (args.search /\ LacksCollection) =>
          /\ Len(calls) <= 1
          /\ \A k \in DOMAIN calls : calls[k].op = "open"
          /\ (pc = "done" /\ client.open) =>
                /\ Len(out) = 2
                /\ out[1].tag = "connected"
                /\ out[2].tag = "search_needs_collection"
    /\ (args.search /\ ~LacksCollection /\ LacksVector) =>
          /\ Len(calls) <= 2
          /\ \A k \in DOMAIN calls :
                calls[k].op = IF k = 1 THEN "open" ELSE "has_collection"
          /\ (pc = "done" /\ CollectionExists) =>
                /\ Len(out) = 2
                /\ out[1].tag = "connected"
                /\ out[2].tag = "search_needs_vector"
    /\ NumLines({"search_needs_collection"}) > 0 => (args.search /\ LacksCollection)
    /\ NumLines({"search_needs_vector"}) > 0 => (args.search /\ LacksVector)

C1_Witness ==
    /\ pc = "done"
    /\ args.search
    /\ args.collection = Some("")
    /\ args.search_id.some
    /\ NumLines({"search_needs_collection"}) = 1
    /\ Len(calls) = 1

(* C2: when the uri path does not exist main() never opens a connection,   *)
(* makes no client call, and prints exactly the file-does-not-exist error. *)
C2_MissingFileNoConnection ==
    ~uri_exists =>
        /\ Len(calls) = 0
        /\ ~client.open
        /\ pc \in {"start", "done"}
        /\ pc = "start" => Len(out) = 0
        /\ pc = "done" => (Len(out) = 1 /\ out[1].tag = "file_missing")

C2_Witness ==
    /\ ~uri_exists
    /\ pc = "done"
    /\ args.search
    /\ args.search_id.some
    /\ args.collection = Some("docs")

(* C3: the query vector is resolved in the order search_id, search_vector, *)
(* search_text.  With a search_id (0 included) the search_vector is never  *)
(* parsed or used and a search call carries the vector returned by the     *)
(* query for that id; with a search_vector the text is ignored; with only  *)
(* a search_text the tool reports not-implemented and never searches.      *)
C3_ResolutionPriority ==
    /\ args.search_id.some =>
          /\ NumLines({"using_vector", "vector_invalid_json", "vector_not_array",
                       "text_not_implemented", "search_needs_vector"}) = 0
          /\ \A k \in CallsOf("search") :
                /\ k > 1
                /\ calls[k - 1].op = "query"
                /\ calls[k - 1].ok
                /\ calls[k - 1].filter_id = args.search_id.v
                /\ Len(calls[k - 1].ret) > 0
                /\ calls[k].data = <<calls[k - 1].ret[1].embedding>>
          /\ (pc = "done" /\ CollectionExists) =>
                NumLines({"using_id", "id_not_found", "query_id_failed"}) = 1
    /\ (~args.search_id.some /\ args.search_vector.some
          /\ Len(args.search_vector.v) > 0) =>
          /\ NumLines({"text_not_implemented", "using_id"}) = 0
          /\ CallsOf("query") = {}
    /\ (~args.search_id.some /\ ~(args.search_vector.some
          /\ Len(args.search_vector.v) > 0)
          /\ args.search_text.some /\ args.search_text.v # "") =>
          /\ CallsOf("search") \cup CallsOf("query") = {}
          /\ (pc = "done" /\ args.search /\ CollectionExists) =>
                NumLines({"text_not_implemented"}) = 1

C3_Witness ==
    /\ pc = "done"
    /\ args.search_id = Some(0)
    /\ args.search_vector = Some(<<"[", "1", ",">>)
    /\ args.search_text.some
    /\ CallsOf("search") # {}

(* json.dumps without spaces, and a string without its spaces *)
RECURSIVE IntDigits(_)
IntDigits(n) ==
    IF n < 10 THEN <<Digits[n + 1]>>
    ELSE IntDigits(n \div 10) \o <<Digits[(n % 10) + 1]>>
RECURSIVE Dumps(_)
RECURSIVE DumpItems(_, _)
Dumps(v) ==
    IF v.t = "int" THEN IntDigits(v.n)
    ELSE IF v.t = "list" THEN <<"[">> \o DumpItems(v.items, 1) \o <<"]">>
    ELSE IF v.t = "dict" THEN <<"{", "}">>
    ELSE <<"?">>
DumpItems(items, k) ==
    IF k > Len(items) THEN <<>>
    ELSE (IF k > 1 THEN <<",">> ELSE <<>>) \o Dumps(items[k])
         \o DumpItems(items, k + 1)
NoSpaces(s) == LET Keep(c) == c # " " IN SelectSeq(s, Keep)

(* C4: a search whose vector comes from a search_vector that parses as a   *)
(* JSON array issues no query call and exactly one search call, carrying   *)
(* the array verbatim as its one vector, limit top_k, metric L2 and the    *)
(* output fields text, reference, metadata.                                *)
C4_ExplicitVectorSearch ==
    (/\ args.search
     /\ ~args.search_id.some
     /\ args.search_vector.some
     /\ JsonLoads(args.search_vector.v).ok
     /\ JsonLoads(args.search_vector.v).val.t = "list") =>
        /\ CallsOf("query") = {}
        /\ Cardinality(CallsOf("search")) <= 1
        /\ (pc \in {"hits", "done"} /\ CollectionExists) =>
              Cardinality(CallsOf("search")) = 1
        /\ \A k \in CallsOf("search") :
              /\ calls[k].coll = args.collection.v
              /\ Len(calls[k].data) = 1
              /\ calls[k].data[1].t = "list"
              /\ Dumps(calls[k].data[1]) = NoSpaces(args.search_vector.v)
              /\ calls[k].limit = args.top_k
              /\ calls[k].metric_type = "L2"
              /\ calls[k].anns_field = "embedding"
              /\ calls[k].output_fields = <<"text", "reference", "metadata">>

C4_Witness ==
    /\ pc = "done"
    /\ args.search_vector = Some(<<"[", "[", "3", "]", ",", "1", "0", "]">>)
    /\ args.top_k = 2
    /\ Cardinality(CallsOf("search")) = 1
    /\ calls[Len(calls)].data[1].items[2].n = 10

(* The query calls of collection inspection *)
InspectQueries == IF args.search THEN {} ELSE CallsOf("query")
InspectQueryShape(k) ==
    /\ calls[k].coll = args.collection.v
    /\ calls[k].filter = ""
    /\ calls[k].limit = args.limit
    /\ calls[k].offset = args.offset
CompactSet ==
    {"id"} \cup ({"text", "reference", "metadata"} \cap Range(description.fields))

(* C5, as stated: the query of collection inspection requests, with        *)
(* show_vectors, every schema field except the id field, and otherwise the *)
(* id field plus those of text, reference, metadata in the schema.         *)
C5_OutputFieldsExcludeId ==
    \A k \in InspectQueries :
        /\ InspectQueryShape(k)
        /\ Range(calls[k].output_fields) =
              IF args.show_vectors
              THEN Range(description.fields) \ {"id"}
              ELSE CompactSet

(* C5, amended: there is one query at most, with empty filter and the      *)
(* given limit and offset; with show_vectors it requests every schema      *)
(* field except id, in schema order, followed by the id field, which is    *)
(* always requested; otherwise those of text, reference, metadata in the   *)
(* schema followed by id, and never embedding.                             *)
C5_OutputFieldsAlwaysWithId ==
    /\ Cardinality(InspectQueries) <= 1
    /\ \A k \in InspectQueries :
          LET NotId(f) == f # "id"
              InSchema(f) == f \in Range(description.fields)
          IN  /\ InspectQueryShape(k)
              /\ calls[k].output_fields =
                    IF args.show_vectors
                    THEN Append(SelectSeq(description.fields, NotId), "id")
                    ELSE Append(SelectSeq(<<"text", "reference", "metadata">>,
                                          InSchema), "id")
              /\ ~args.show_vectors =>
                    /\ "embedding" \notin Range(calls[k].output_fields)
                    /\ Range(calls[k].output_fields) = CompactSet

C5_Witness ==
    /\ pc = "done"
    /\ ~args.search
    /\ args.show_vectors
    /\ Len(description.fields) = 6
    /\ InspectQueries # {}
    /\ Len(calls[Len(calls)].output_fields) = 6

(* The indices in calls of the describe_collection calls, in order: during *)
(* listing the r-th of them belongs to the r-th row.                       *)
DescribeIndex ==
    LET IsDescribe(k) == calls[k].op = "describe_collection"
    IN  SelectSeq([k \in 1..Len(calls) |-> k], IsDescribe)
Listing == ~args.search /\ LacksCollection
StatsFailedAfter(d) ==
    /\ d + 1 <= Len(calls)
    /\ calls[d + 1].op = "get_collection_stats"
    /\ ~calls[d + 1].ok
StatsUnsupportedAfter(d) ==
    /\ calls[d].ok
    /\ d = Len(calls) \/ calls[d + 1].op # "get_collection_stats"

(* C6: in the listing every collection returned by list_collections gets   *)
(* exactly one row, in the returned order, and the table is printed; a     *)
(* collection whose row-count call failed or is unsupported has the count  *)
(* unknown and still shows its name and its description.                   *)
C6_RowCountFailureKeepsRow ==
    Listing =>
        /\ Len(DescribeIndex) = Len(collection_data)
        /\ Len(collection_data) <= Len(collections)
        /\ \A r \in 1..Len(collection_data) :
              LET d == DescribeIndex[r]
                  row == collection_data[r]
              IN  /\ row.name = collections[r]
                  /\ calls[d].coll = collections[r]
                  /\ (StatsFailedAfter(d) \/ StatsUnsupportedAfter(d)) =>
                        /\ ~row.known
                        /\ row.description =
                              IF calls[d].ret[1].has_description
                              THEN calls[d].ret[1].description ELSE ""
        /\ (pc = "done" /\ Len(collections) > 0) =>
              /\ NumLines({"table"}) = 1
              /\ NumLines({"list_failed"}) = 0
              /\ table = collection_data
              /\ Len(table) = Len(collections)

C6_Witness ==
    /\ pc = "done"
    /\ NumLines({"table"}) = 1
    /\ collections = <<"b", "a">>
    /\ StatsFailedAfter(DescribeIndex[1])
    /\ calls[DescribeIndex[1]].ret[1].has_description
    /\ table[1].description = "about"
    /\ table[2].known

(* C7: an empty result gives exactly one empty-result message and no       *)
(* record output: no table after an empty list_collections, no record      *)
(* header after an empty paged read, no hit header after a search with an  *)
(* empty outer list or an empty first inner list.                          *)
C7_EmptyResultMessage ==
    /\ \A k \in CallsOf("list_collections") :
          (calls[k].ok /\ Len(calls[k].ret) = 0) =>
              /\ pc = "done"
              /\ NumLines({"no_collections"}) = 1
              /\ NumLines({"table", "list_header"}) = 0
              /\ Len(table) = 0
    /\ \A k \in InspectQueries :
          (calls[k].ok /\ Len(calls[k].ret) = 0) =>
              /\ pc = "done"
              /\ NumLines({"no_data"}) = 1
              /\ NumLines({"record_header", "data_range", "id", "text"}) = 0
    /\ \A k \in CallsOf("search") :
          (calls[k].ok /\ (Len(calls[k].ret) = 0 \/ Len(calls[k].ret[1]) = 0)) =>
              /\ pc = "done"
              /\ NumLines({"no_similar"}) = 1
              /\ NumLines({"hit_header", "found", "id", "text"}) = 0
    /\ NumLines({"no_collections", "no_data", "no_similar"}) <= 1

C7_Witness ==
    /\ pc = "done"
    /\ CallsOf("search") # {}
    /\ calls[Len(calls)].op = "search"
    /\ calls[Len(calls)].ok
    /\ Len(calls[Len(calls)].ret) = 1
    /\ NumLines({"no_similar"}) = 1

(* C8: whichever client call fails and whatever the shape of the records   *)
(* or hits, no exception leaves main() and the exit status stays 0; main() *)
(* is always at a position of its code, and inside a loop only while the   *)
(* loop has an element left or the code after the loop to run.             *)
C8_NoExceptionEscapes ==
    /\ pc \in {"start", "connect", "dispatch", "resolve", "search", "hits",
                "listing", "describe", "query", "records", "done"}
    /\ exit_status = 0
    /\ pc = "hits" => (Len(search_results) = 1 /\ i < Len(search_results[1]))
    /\ pc = "listing" => i <= Len(collections)
    /\ pc = "records" => i < Len(results)

C8_Witness ==
    /\ pc = "done"
    /\ \A k \in DOMAIN calls : calls[k].ok
    /\ NumLines({"query_failed"}) = 1
    /\ NumLines({"record_header"}) = 2

(* The texts of the records or hits being rendered *)
Rendered ==
    IF args.search
    THEN IF Len(search_results) > 0 THEN search_results[1] ELSE <<>>
    ELSE results
TextRendering(text, line) ==
    IF Len(text) <= 100
    THEN line = text
    ELSE /\ Len(line) = 100
         /\ SubSeq(line, 1, 97) = SubSeq(text, 1, 97)
         /\ SubSeq(line, 98, 100) = <<".", ".", ".">>

(* C9: every printed text is at most 100 characters and is the text of a   *)
(* record or hit, unchanged if that has at most 100 characters, else its   *)
(* first 97 characters followed by "..."; every record or hit rendered     *)
(* with a text has such a line.                                            *)
C9_TextTruncation ==
    /\ \A k \in DOMAIN out :
          out[k].tag = "text" =>
              /\ Len(out[k].txt) <= 100
              /\ \E j \in 1..Len(Rendered) :
                    /\ "text" \in Rendered[j].has
                    /\ Rendered[j].text_ok
                    /\ TextRendering(Rendered[j].text, out[k].txt)
    /\ \A j \in 1..Min(i, Len(Rendered)) :
          ("text" \in Rendered[j].has /\ Rendered[j].text_ok) =>
              \E k \in DOMAIN out :
                  /\ out[k].tag = "text"
                  /\ TextRendering(Rendered[j].text, out[k].txt)

C9_Witness ==
    /\ pc = "done"
    /\ args.search
    /\ i = 2
    /\ Len(Rendered[1].text) = 100
    /\ Len(Rendered[2].text) = 101
    /\ \E k \in DOMAIN out :
          /\ out[k].tag = "text"
          /\ Len(out[k].txt) = 100
          /\ out[k].txt[100] = "."
          /\ out[k].txt[97] = Rendered[2].text[97]
    /\ \E k \in DOMAIN out :
          /\ out[k].tag = "text"
          /\ out[k].txt = Rendered[1].text

(* C10, as stated: after a failed open, has_collection, list_collections,  *)
(* describe_collection, query or search no further client call is issued.  *)
C10_FailedCallIsLast ==
    \A k \in DOMAIN calls :
        (/\ ~calls[k].ok
         /\ calls[k].op \in {"open", "has_collection", "list_collections",
                             "describe_collection", "query", "search"}) =>
            k = Len(calls)

(* C10, amended: no call is retried.  A failed open, has_collection,       *)
(* list_collections, query or search, or describe_collection of collection *)
(* inspection, is the last client call, is reported by exactly one failure *)
(* message, and main() has returned.  A describe_collection that fails     *)
(* during listing is recorded once, in that collection's row, and the next *)
(* call, if any, describes the next collection.                            *)
C10_NoRetry ==
    /\ \A k \in DOMAIN calls :
          (/\ ~calls[k].ok
           /\ calls[k].op # "get_collection_stats"
           /\ ~(Listing /\ calls[k].op = "describe_collection")) =>
              /\ k = Len(calls)
              /\ pc = "done"
              /\ NumLines(FailureTags) = 1
    /\ Listing =>
          /\ Len(DescribeIndex) = Len(collection_data)
          /\ \A r \in 1..Len(DescribeIndex) :
                LET d == DescribeIndex[r]
                IN  /\ calls[d].coll = collections[r]
                    /\ ~calls[d].ok =>
                          /\ collection_data[r].name = collections[r]
                          /\ collection_data[r].description = "describe_failed"
                          /\ ~collection_data[r].known
                          /\ NumLines(FailureTags) = 0
                          /\ d = Len(calls) \/
                                (/\ calls[d + 1].op = "describe_collection"
                                 /\ r < Len(collections)
                                 /\ calls[d + 1].coll = collections[r + 1])

C10_Witness ==
    /\ pc = "done"
    /\ Listing
    /\ Len(DescribeIndex) = 2
    /\ ~calls[DescribeIndex[1]].ok
    /\ calls[DescribeIndex[2]].ok
    /\ NumLines({"table"}) = 1

====
